---- MODULE Spec2Model ----
(***************************************************************************)
(* A model of OpenEngine's SimpleSetup helper (Utils/SimpleSetup.{h,cpp}): *)
(* the composition root that wires an engine, an environment, a renderer,  *)
(* a viewport with its viewing volume, a scene, a texture loader and a     *)
(* lazily created HUD.                                                     *)
(*                                                                         *)
(* Objects are pairs <<kind, id>>.  Objects allocated by SimpleSetup get   *)
(* their id from a per-kind allocation count, so that two allocations are  *)
(* never the same object.  NULL is <<"NULL", 0>>.                          *)
(***************************************************************************)
EXTENDS Naturals, Sequences, FiniteSets

\* ------------------------------------------------------------- bounds

\* Setup operations (SetScene, SetCamera, GetHUD, ShowFPS, EnableDebugging)
\* called in one run.
MaxOps == 2

\* Process firings of the engine in one run.
MaxFrames == 2

\* Scenes, cameras and viewing volumes the caller owns and may pass in.
NumScenes == 2

NumCameras == 2

NumVolumes == 2

\* ------------------------------------------------------------- objects

NULL == <<"NULL", 0>>

\* SDLEnvironment(800,600), SimpleSetup.cpp line 126.
DefaultWidth == 800

DefaultHeight == 600

KEY_ESCAPE == "KEY_ESCAPE"

Keys == {"none", KEY_ESCAPE, "KEY_a"}

UserEngine == <<"UserEngine", 1>>

UserEnvironment == <<"UserEnvironment", 1>>

UserRenderingView == <<"UserRenderingView", 1>>

UserViewport == <<"UserViewport", 1>>

UserRenderer == <<"UserRenderer", 1>>

UserScenes == {<<"UserScene", k>> : k \in 1..NumScenes}

UserCameras == {<<"UserCamera", k>> : k \in 1..NumCameras}

UserVolumes == {<<"UserVolume", k>> : k \in 1..NumVolumes}

\* The arguments a caller may give the constructor: the four of the
\* definition (vp, env, rv, eng) and the rend of the declaration.
AllArgs ==
    [vp : {NULL, UserViewport}, env : {NULL, UserEnvironment},
     rv : {NULL, UserRenderingView}, eng : {NULL, UserEngine},
     rend : {NULL, UserRenderer}]

NoArgs == [vp |-> NULL, env |-> NULL, rv |-> NULL, eng |-> NULL, rend |-> NULL]

\* The texture resources of a caller's scene: one of its own and one that
\* every caller's scene shares.  The default scene (a SceneNode with one
\* DirectionalLightNode) has none.
SceneTextures(s) ==
    IF s \in UserScenes THEN {<<"Texture", s[2]>>, <<"Texture", 0>>} ELSE {}

\* ------------------------------------------------------------- state

VARIABLES
    pc,             \* position in the constructor or in an operation
    args,           \* the constructor's arguments
    arg,            \* the argument of the operation in progress
    ops,            \* setup operations called so far
    \* SimpleSetup's members
    engine, env, frame, viewport, renderer, mouse, keyboard, joystick,
    scene, camera, frustum, renderingview, lightrenderer, textureloader,
    hud, stdlog,
    \* what SimpleSetup allocated
    frustums,       \* frustums[i]: camera, live, visualize of <<"Frustum", i>>
    cameras,        \* cameras[i]: the volume <<"Camera", i>> wraps
    shaderLoaders,  \* shaderLoaders[i]: the scene of <<"ShaderLoader", i>>
    nHud,           \* HUD objects allocated
    nFps,           \* FPSSurface objects allocated
    built,          \* the default subsystems constructed
    plugins,        \* resource plug-ins registered
    \* collaborators
    frameSize,      \* the frame's width and height
    vpVolume,       \* the viewport's viewing volume
    sceneRoot,      \* the renderer's scene root
    sceneChildren,  \* the children of each scene root
    engInit, engProc, engDeinit,   \* the engine's channels
    rInit, rPre, rProc, rPost,     \* the renderer's channels
    keyListeners,   \* the keyboard's key-event channel
    tlQueue,        \* textures pending in the texture loader
    tlLoaded,       \* textures the texture loader has loaded
    hudSurfaces,    \* surfaces created on the HUD
    errorLog,       \* diagnostics written to the logger
    dotWritten,     \* scene.dot exports written
    \* the engine's run
    engState,       \* "Created", "Running", "Stopped"
    stopRequested,  \* engine.Stop() was called
    frames,         \* Process firings so far
    phaseLog,       \* the phases fired <<phase, key delivered>>, in order
    initLog,        \* the handlers of the Initialize firing, in order
    frameLog,       \* the handlers of the last Process firing, in order
    deliveries,     \* the engine's deliveries <<phase, listener>>, in order
    \* what the caller has seen
    lastOp,         \* the last operation that returned, with its argument
    lastCamArg,     \* the argument of the last SetCamera call that returned
    hudReturned     \* the HUD objects GetHUD has returned

members ==
    <<engine, env, frame, viewport, renderer, mouse, keyboard, joystick,
      scene, camera, frustum, renderingview, lightrenderer, textureloader,
      hud, stdlog>>

allocated == <<frustums, cameras, shaderLoaders, nHud, nFps, built, plugins>>

channels == <<engInit, engProc, engDeinit, rInit, rPre, rProc, rPost, keyListeners>>

collab ==
    <<frameSize, vpVolume, sceneRoot, sceneChildren, tlQueue, tlLoaded,
      hudSurfaces, errorLog, dotWritten>>

run ==
    <<engState, stopRequested, frames, phaseLog, initLog, frameLog, deliveries>>

seen == <<lastOp, lastCamArg, hudReturned>>

vars == <<pc, args, arg, ops, members, allocated, channels, collab, run, seen>>

AllScenes == UserScenes \cup {<<"SceneNode", 1>>}

\* ------------------------------------------------------------- Init

\* The state at the constructor's opening brace: every member NULL
\* (the member initializers), nothing attached, the engine not started.
InitWith(A) ==
    /\ pc = "ctor_engine"
    /\ args \in A
    /\ arg = NULL
    /\ ops = 0
    /\ engine = NULL /\ env = NULL /\ frame = NULL /\ viewport = NULL
    /\ renderer = NULL /\ mouse = NULL /\ keyboard = NULL /\ joystick = NULL
    /\ scene = NULL /\ camera = NULL /\ frustum = NULL
    /\ renderingview = NULL /\ lightrenderer = NULL /\ textureloader = NULL
    /\ hud = NULL /\ stdlog = NULL
    /\ frustums = <<>> /\ cameras = <<>> /\ shaderLoaders = <<>>
    /\ nHud = 0 /\ nFps = 0 /\ built = {} /\ plugins = {}
    /\ frameSize = <<0, 0>>
    /\ vpVolume = NULL
    /\ sceneRoot = NULL
    /\ sceneChildren = [s \in AllScenes |-> <<>>]
    /\ engInit = <<>> /\ engProc = <<>> /\ engDeinit = <<>>
    /\ rInit = <<>> /\ rPre = <<>> /\ rProc = <<>> /\ rPost = <<>>
    /\ keyListeners = <<>>
    /\ tlQueue = {} /\ tlLoaded = {}
    /\ hudSurfaces = <<>>
    /\ errorLog = <<>>
    /\ dotWritten = 0
    /\ engState = "Created"
    /\ stopRequested = FALSE
    /\ frames = 0
    /\ phaseLog = <<>> /\ initLog = <<>> /\ frameLog = <<>>
    /\ deliveries = <<>>
    /\ lastOp = <<"none", NULL>>
    /\ lastCamArg = NULL
    /\ hudReturned = {}

\* The documented use, SimpleSetup setup: every argument defaulted.
Init == InitWith({NoArgs})

\* Every choice of supplied and defaulted arguments.
InitInject == InitWith(AllArgs)

\* ------------------------------------------------------------- collaborators

\* IEvent::Attach: a channel delivers in attachment order.
Attach(ch, l) == Append(ch, l)

\* IEnvironment::GetFrame, GetMouse, GetKeyboard, GetJoystick: the devices
\* belong to the environment.
DeviceOf(e, dev) == <<dev, IF e = UserEnvironment THEN 2 ELSE 1>>

\* TextureLoader::Load(ISceneNode&): every texture of the scene is pending.
TextureLoader_Load(q, s) == q \cup SceneTextures(s)

\* The camera a frustum wraps, the volume a camera wraps.
CameraOf(f) == frustums[f[2]].camera

IsLive(v) == IF v[1] = "Frustum" THEN frustums[v[2]].live ELSE v # NULL

\* What a viewing volume derives from: a frustum from its camera, a camera
\* SimpleSetup made from the volume it wraps.
Wrapped(v) ==
    IF v[1] = "Frustum" THEN CameraOf(v)
    ELSE IF v[1] = "Camera" THEN cameras[v[2]]
    ELSE NULL

\* ------------------------------------------------------------- constructor

\* engine = (eng==NULL)?new Engine():eng
EngineFor(eng) == IF eng = NULL THEN <<"Engine", 1>> ELSE eng

\* this->env = env = (env == NULL) ? new SDLEnvironment(800,600) : env
EnvFor(e) == IF e = NULL THEN <<"SDLEnvironment", 1>> ELSE e

\* viewport = (vp == NULL) ? new Viewport(*frame) : vp
ViewportFor(vp) == IF vp = NULL THEN <<"Viewport", 1>> ELSE vp

\* renderingview = (rv == NULL) ? new RenderingView(*viewport) : rv
RenderingViewFor(rv) == IF rv = NULL THEN <<"RenderingView", 1>> ELSE rv

\* renderer = new Renderer(viewport): no argument is consulted.
RendererFor(rend) == <<"Renderer", 1>>

\* The engine's channels with listener l put ahead of the listeners
\* attached before it.
EngineChannelsWith_Front(l) ==
    [init |-> <<l>> \o engInit, proc |-> <<l>> \o engProc,
     deinit |-> <<l>> \o engDeinit]

\* The engine's channels with l attached to Initialize and Process only.
EngineChannelsWith_NoDeinitialize(l) ==
    [init |-> Attach(engInit, l), proc |-> Attach(engProc, l),
     deinit |-> engDeinit]

\* InitializeEvent().Attach(l); ProcessEvent().Attach(l);
\* DeinitializeEvent().Attach(l): the engine's three channels after l is
\* attached to each.
EngineChannelsWith(l) ==
    [init |-> Attach(engInit, l), proc |-> Attach(engProc, l),
     deinit |-> Attach(engDeinit, l)]

\* PreProcessEvent().Attach(*lightrenderer), then, after the rendering view
\* and the texture-load trigger, PreProcessEvent().Attach(*textureloader).
PreProcessStages_Reversed(pre, lr, tl) == Attach(Attach(pre, tl), lr)

PreProcessStages(pre, lr, tl) == Attach(Attach(pre, lr), tl)

\* The logger, the engine, the environment with its devices, and the
\* environment attached to the engine's three channels.
CtorEngine ==
    /\ pc = "ctor_engine"
    /\ pc' = "ctor_viewport"
    /\ stdlog' = <<"StreamLogger", 1>>
    /\ engine' = EngineFor(args.eng)
    /\ env' = EnvFor(args.env)
    /\ built' = built \cup (IF args.eng = NULL THEN {"Engine"} ELSE {})
                      \cup (IF args.env = NULL THEN {"SDLEnvironment"} ELSE {})
    /\ frameSize' = IF args.env = NULL THEN <<DefaultWidth, DefaultHeight>>
                    ELSE frameSize
    /\ frame' = DeviceOf(env', "Frame")
    /\ mouse' = DeviceOf(env', "Mouse")
    /\ keyboard' = DeviceOf(env', "Keyboard")
    /\ joystick' = DeviceOf(env', "Joystick")
    /\ engInit' = EngineChannelsWith(env').init
    /\ engProc' = EngineChannelsWith(env').proc
    /\ engDeinit' = EngineChannelsWith(env').deinit
    /\ UNCHANGED <<args, arg, ops, viewport, renderer, scene, camera, frustum,
                   renderingview, lightrenderer, textureloader, hud,
                   frustums, cameras, shaderLoaders, nHud, nFps, plugins,
                   vpVolume, sceneRoot, sceneChildren, tlQueue, tlLoaded,
                   hudSurfaces, errorLog, dotWritten,
                   rInit, rPre, rProc, rPost, keyListeners, run, seen>>

\* The viewport, the default camera and its frustum.
CtorViewport ==
    /\ pc = "ctor_viewport"
    /\ pc' = "ctor_scene"
    /\ viewport' = ViewportFor(args.vp)
    /\ built' = built \cup (IF args.vp = NULL THEN {"Viewport"} ELSE {})
    /\ cameras' = Append(cameras, <<"PerspectiveViewingVolume", 1>>)
    /\ camera' = <<"Camera", Len(cameras')>>
    /\ frustums' = Append(frustums,
                     [camera |-> camera', live |-> TRUE, visualize |-> FALSE])
    /\ frustum' = <<"Frustum", Len(frustums')>>
    /\ vpVolume' = frustum'
    /\ UNCHANGED <<args, arg, ops, engine, env, frame, renderer, mouse,
                   keyboard, joystick, scene, renderingview, lightrenderer,
                   textureloader, hud, stdlog, shaderLoaders, nHud, nFps,
                   plugins, frameSize, sceneRoot, sceneChildren, tlQueue,
                   tlLoaded, hudSurfaces, errorLog, dotWritten, channels,
                   run, seen>>

\* CtorScene with an empty scene: no directional light is added.
CtorScene_NoLight ==
    /\ pc = "ctor_scene"
    /\ pc' = "ctor_render"
    /\ plugins' = plugins \cup {"OBJPlugin", "SDLImagePlugin", "GLSLPlugin"}
    /\ scene' = <<"SceneNode", 1>>
    /\ sceneChildren' = sceneChildren
    /\ UNCHANGED <<args, arg, ops, engine, env, frame, viewport, renderer,
                   mouse, keyboard, joystick, camera, frustum, renderingview,
                   lightrenderer, textureloader, hud, stdlog, frustums,
                   cameras, shaderLoaders, nHud, nFps, built, frameSize,
                   vpVolume, sceneRoot, tlQueue, tlLoaded, hudSurfaces,
                   errorLog, dotWritten, channels, run, seen>>

\* The resource plug-ins and the default scene.
CtorScene ==
    /\ pc = "ctor_scene"
    /\ pc' = "ctor_render"
    /\ plugins' = plugins \cup {"OBJPlugin", "SDLImagePlugin", "GLSLPlugin"}
    /\ scene' = <<"SceneNode", 1>>
    /\ sceneChildren' = [sceneChildren EXCEPT
                           ![scene'] = Append(@, <<"DirectionalLightNode", 1>>)]
    /\ UNCHANGED <<args, arg, ops, engine, env, frame, viewport, renderer,
                   mouse, keyboard, joystick, camera, frustum, renderingview,
                   lightrenderer, textureloader, hud, stdlog, frustums,
                   cameras, shaderLoaders, nHud, nFps, built, frameSize,
                   vpVolume, sceneRoot, tlQueue, tlLoaded, hudSurfaces,
                   errorLog, dotWritten, channels, run, seen>>

\* CtorRender with the rendering view attached to the renderer's
\* pre-process channel, ahead of the texture loader, instead of to its
\* process channel.
CtorRender_ViewInPreProcess ==
    /\ pc = "ctor_render"
    /\ pc' = "ctor_keys"
    /\ renderer' = RendererFor(args.rend)
    /\ textureloader' = <<"TextureLoader", 1>>
    /\ renderingview' = RenderingViewFor(args.rv)
    /\ lightrenderer' = <<"LightRenderer", 1>>
    /\ built' = built \cup {"Renderer"}
                      \cup (IF args.rv = NULL THEN {"RenderingView"} ELSE {})
    /\ engInit' = EngineChannelsWith(renderer').init
    /\ engProc' = EngineChannelsWith(renderer').proc
    /\ engDeinit' = EngineChannelsWith(renderer').deinit
    /\ rPre' = Attach(Attach(Attach(rPre, lightrenderer'), renderingview'),
                      textureloader')
    /\ rProc' = rProc
    /\ sceneRoot' = scene
    /\ rInit' = Attach(rInit, <<"TextureLoadOnInit", 1>>)
    /\ UNCHANGED <<args, arg, ops, engine, env, frame, viewport, mouse,
                   keyboard, joystick, scene, camera, frustum, hud, stdlog,
                   frustums, cameras, shaderLoaders, nHud, nFps, plugins,
                   frameSize, vpVolume, sceneChildren, tlQueue, tlLoaded,
                   hudSurfaces, errorLog, dotWritten, rPost, keyListeners,
                   run, seen>>

\* The rendering system: the renderer on the engine's channels, the stages
\* on the renderer's channels.
CtorRender ==
    /\ pc = "ctor_render"
    /\ pc' = "ctor_keys"
    /\ renderer' = RendererFor(args.rend)
    /\ textureloader' = <<"TextureLoader", 1>>
    /\ renderingview' = RenderingViewFor(args.rv)
    /\ lightrenderer' = <<"LightRenderer", 1>>
    /\ built' = built \cup {"Renderer"}
                      \cup (IF args.rv = NULL THEN {"RenderingView"} ELSE {})
    /\ engInit' = EngineChannelsWith(renderer').init
    /\ engProc' = EngineChannelsWith(renderer').proc
    /\ engDeinit' = EngineChannelsWith(renderer').deinit
    /\ rPre' = PreProcessStages(rPre, lightrenderer', textureloader')
    /\ rProc' = Attach(rProc, renderingview')
    /\ sceneRoot' = scene
    /\ rInit' = Attach(rInit, <<"TextureLoadOnInit", 1>>)
    /\ UNCHANGED <<args, arg, ops, engine, env, frame, viewport, mouse,
                   keyboard, joystick, scene, camera, frustum, hud, stdlog,
                   frustums, cameras, shaderLoaders, nHud, nFps, plugins,
                   frameSize, vpVolume, sceneChildren, tlQueue, tlLoaded,
                   hudSurfaces, errorLog, dotWritten, rPost, keyListeners,
                   run, seen>>

\* The default key binding: the quit handler on the keyboard.
CtorKeys ==
    /\ pc = "ctor_keys"
    /\ pc' = "ready"
    /\ keyListeners' = Attach(keyListeners, <<"QuitHandler", 1>>)
    /\ UNCHANGED <<args, arg, ops, members, allocated, collab, engInit,
                   engProc, engDeinit, rInit, rPre, rProc, rPost, run, seen>>

\* ------------------------------------------------------------- operations

\* The caller invokes the setup operations once the constructor has
\* returned, before the engine starts or between two of its firings.
CanCall == pc = "ready" /\ ops < MaxOps /\ engState # "Stopped"

\* SetScene without renderer->SetSceneRoot(this->scene).
SetScene_NoRoot(s) ==
    /\ CanCall
    /\ scene' = s
    /\ sceneRoot' = sceneRoot
    /\ tlQueue' = TextureLoader_Load(tlQueue, s)
    /\ shaderLoaders' = Append(shaderLoaders, s)
    /\ engInit' = Attach(engInit, <<"ShaderLoader", Len(shaderLoaders')>>)
    /\ ops' = ops + 1
    /\ lastOp' = <<"SetScene", s>>
    /\ UNCHANGED <<pc, args, arg, engine, env, frame, viewport, renderer,
                   mouse, keyboard, joystick, camera, frustum, renderingview,
                   lightrenderer, textureloader, hud, stdlog, frustums,
                   cameras, nHud, nFps, built, plugins, frameSize, vpVolume,
                   sceneChildren, tlLoaded, hudSurfaces, errorLog, dotWritten,
                   engProc, engDeinit, rInit, rPre, rProc, rPost,
                   keyListeners, run, lastCamArg, hudReturned>>

\* SetScene without the scan of the new scene for textures.
SetScene_NoLoad(s) ==
    /\ CanCall
    /\ scene' = s
    /\ sceneRoot' = scene'
    /\ tlQueue' = tlQueue
    /\ shaderLoaders' = Append(shaderLoaders, s)
    /\ engInit' = Attach(engInit, <<"ShaderLoader", Len(shaderLoaders')>>)
    /\ ops' = ops + 1
    /\ lastOp' = <<"SetScene", s>>
    /\ UNCHANGED <<pc, args, arg, engine, env, frame, viewport, renderer,
                   mouse, keyboard, joystick, camera, frustum, renderingview,
                   lightrenderer, textureloader, hud, stdlog, frustums,
                   cameras, nHud, nFps, built, plugins, frameSize, vpVolume,
                   sceneChildren, tlLoaded, hudSurfaces, errorLog, dotWritten,
                   engProc, engDeinit, rInit, rPre, rProc, rPost,
                   keyListeners, run, lastCamArg, hudReturned>>

\* SetScene(scene): the member and the renderer's root are replaced, the
\* scene is scanned for textures and a new ShaderLoader for it is attached
\* to the engine's Initialize channel.
SetScene(s) ==
    /\ CanCall
    /\ scene' = s
    /\ sceneRoot' = scene'
    /\ tlQueue' = TextureLoader_Load(tlQueue, s)
    /\ shaderLoaders' = Append(shaderLoaders, s)
    /\ engInit' = Attach(engInit, <<"ShaderLoader", Len(shaderLoaders')>>)
    /\ ops' = ops + 1
    /\ lastOp' = <<"SetScene", s>>
    /\ UNCHANGED <<pc, args, arg, engine, env, frame, viewport, renderer,
                   mouse, keyboard, joystick, camera, frustum, renderingview,
                   lightrenderer, textureloader, hud, stdlog, frustums,
                   cameras, nHud, nFps, built, plugins, frameSize, vpVolume,
                   sceneChildren, tlLoaded, hudSurfaces, errorLog, dotWritten,
                   engProc, engDeinit, rInit, rPre, rProc, rPost,
                   keyListeners, run, lastCamArg, hudReturned>>

\* SetCamera(Camera&), statement by statement.
\* camera = &volume
SetCamera_assign(c) ==
    /\ CanCall
    /\ pc' = "SetCamera_delete"
    /\ arg' = c
    /\ camera' = c
    /\ UNCHANGED <<args, ops, engine, env, frame, viewport, renderer, mouse,
                   keyboard, joystick, scene, frustum, renderingview,
                   lightrenderer, textureloader, hud, stdlog, allocated,
                   channels, collab, run, seen>>

\* delete frustum
SetCamera_delete ==
    /\ pc = "SetCamera_delete"
    /\ pc' = "SetCamera_new"
    /\ frustums' = [frustums EXCEPT ![frustum[2]].live = FALSE]
    /\ UNCHANGED <<args, arg, ops, members, cameras, shaderLoaders, nHud,
                   nFps, built, plugins, channels, collab, run, seen>>

\* The new frustum made around the camera of the frustum it replaces.
SetCamera_new_Stale ==
    /\ pc = "SetCamera_new"
    /\ pc' = "SetCamera_install"
    /\ frustums' = Append(frustums,
                     [camera |-> CameraOf(frustum), live |-> TRUE,
                      visualize |-> FALSE])
    /\ frustum' = <<"Frustum", Len(frustums')>>
    /\ UNCHANGED <<args, arg, ops, engine, env, frame, viewport, renderer,
                   mouse, keyboard, joystick, scene, camera, renderingview,
                   lightrenderer, textureloader, hud, stdlog, cameras,
                   shaderLoaders, nHud, nFps, built, plugins, channels,
                   collab, run, seen>>

\* frustum = new Frustum(*camera)
SetCamera_new ==
    /\ pc = "SetCamera_new"
    /\ pc' = "SetCamera_install"
    /\ frustums' = Append(frustums,
                     [camera |-> camera, live |-> TRUE, visualize |-> FALSE])
    /\ frustum' = <<"Frustum", Len(frustums')>>
    /\ UNCHANGED <<args, arg, ops, engine, env, frame, viewport, renderer,
                   mouse, keyboard, joystick, scene, camera, renderingview,
                   lightrenderer, textureloader, hud, stdlog, cameras,
                   shaderLoaders, nHud, nFps, built, plugins, channels,
                   collab, run, seen>>

\* The return without viewport->SetViewingVolume(frustum).
SetCamera_install_Skip ==
    /\ pc = "SetCamera_install"
    /\ pc' = "ready"
    /\ vpVolume' = vpVolume
    /\ ops' = ops + 1
    /\ lastOp' = <<"SetCamera", arg>>
    /\ lastCamArg' = arg
    /\ arg' = NULL
    /\ UNCHANGED <<args, members, allocated, channels, frameSize, sceneRoot,
                   sceneChildren, tlQueue, tlLoaded, hudSurfaces, errorLog,
                   dotWritten, run, hudReturned>>

\* viewport->SetViewingVolume(frustum), and the return
SetCamera_install ==
    /\ pc = "SetCamera_install"
    /\ pc' = "ready"
    /\ vpVolume' = frustum
    /\ ops' = ops + 1
    /\ lastOp' = <<"SetCamera", arg>>
    /\ lastCamArg' = arg
    /\ arg' = NULL
    /\ UNCHANGED <<args, members, allocated, channels, frameSize, sceneRoot,
                   sceneChildren, tlQueue, tlLoaded, hudSurfaces, errorLog,
                   dotWritten, run, hudReturned>>

\* SetCamera(IViewingVolume&), statement by statement.
\* camera = new Camera(volume)
SetCameraVolume_new(v) ==
    /\ CanCall
    /\ pc' = "SetCameraVolume_install"
    /\ arg' = v
    /\ cameras' = Append(cameras, v)
    /\ camera' = <<"Camera", Len(cameras')>>
    /\ UNCHANGED <<args, ops, engine, env, frame, viewport, renderer, mouse,
                   keyboard, joystick, scene, frustum, renderingview,
                   lightrenderer, textureloader, hud, stdlog, frustums,
                   shaderLoaders, nHud, nFps, built, plugins, channels,
                   collab, run, seen>>

\* viewport->SetViewingVolume(frustum) in place of the camera.
SetCameraVolume_install_Frustum ==
    /\ pc = "SetCameraVolume_install"
    /\ pc' = "ready"
    /\ vpVolume' = frustum
    /\ ops' = ops + 1
    /\ lastOp' = <<"SetCameraVolume", arg>>
    /\ lastCamArg' = arg
    /\ arg' = NULL
    /\ UNCHANGED <<args, members, allocated, channels, frameSize, sceneRoot,
                   sceneChildren, tlQueue, tlLoaded, hudSurfaces, errorLog,
                   dotWritten, run, hudReturned>>

\* viewport->SetViewingVolume(camera), and the return
SetCameraVolume_install ==
    /\ pc = "SetCameraVolume_install"
    /\ pc' = "ready"
    /\ vpVolume' = camera
    /\ ops' = ops + 1
    /\ lastOp' = <<"SetCameraVolume", arg>>
    /\ lastCamArg' = arg
    /\ arg' = NULL
    /\ UNCHANGED <<args, members, allocated, channels, frameSize, sceneRoot,
                   sceneChildren, tlQueue, tlLoaded, hudSurfaces, errorLog,
                   dotWritten, run, hudReturned>>

\* GetHUD without the test for an existing HUD.
GetHUD_Always(h, n, post) ==
    [hud |-> <<"HUD", n + 1>>, nHud |-> n + 1,
     rPost |-> Attach(post, <<"HUD", n + 1>>)]

\* GetHUD(): the HUD is made and attached to the renderer's post-process
\* channel when there is none; the result is the member, the allocation
\* count and the channel afterwards.
GetHUD(h, n, post) ==
    IF h = NULL
    THEN [hud |-> <<"HUD", n + 1>>, nHud |-> n + 1,
          rPost |-> Attach(post, <<"HUD", n + 1>>)]
    ELSE [hud |-> h, nHud |-> n, rPost |-> post]

\* A call of GetHUD() by the caller.
CallGetHUD ==
    /\ CanCall
    /\ hud' = GetHUD(hud, nHud, rPost).hud
    /\ nHud' = GetHUD(hud, nHud, rPost).nHud
    /\ rPost' = GetHUD(hud, nHud, rPost).rPost
    /\ hudReturned' = hudReturned \cup {hud'}
    /\ ops' = ops + 1
    /\ lastOp' = <<"GetHUD", NULL>>
    /\ UNCHANGED <<pc, args, arg, engine, env, frame, viewport, renderer,
                   mouse, keyboard, joystick, scene, camera, frustum,
                   renderingview, lightrenderer, textureloader, stdlog,
                   frustums, cameras, shaderLoaders, nFps, built, plugins,
                   collab, engInit, engProc, engDeinit, rInit, rPre, rProc,
                   keyListeners, run, lastCamArg>>

\* The body of ShowFPS() without engine->ProcessEvent().Attach(*fps).
ShowFPSBody_NoAttach ==
    /\ nFps' = nFps + 1
    /\ tlQueue' = tlQueue \cup {<<"FPSSurface", nFps'>>}
    /\ engProc' = engProc
    /\ hud' = GetHUD(hud, nHud, rPost).hud
    /\ nHud' = GetHUD(hud, nHud, rPost).nHud
    /\ rPost' = GetHUD(hud, nHud, rPost).rPost
    /\ hudReturned' = hudReturned \cup {hud'}
    /\ hudSurfaces' = Append(hudSurfaces,
                        [hud |-> hud', surface |-> <<"FPSSurface", nFps'>>,
                         position |-> <<"LEFT", "TOP">>])

\* The body of ShowFPS(): a new FPSSurface is queued for loading, attached
\* to the engine's Process channel and placed on the HUD, top left.
ShowFPSBody ==
    /\ nFps' = nFps + 1
    /\ tlQueue' = tlQueue \cup {<<"FPSSurface", nFps'>>}
    /\ engProc' = Attach(engProc, <<"FPSSurface", nFps'>>)
    /\ hud' = GetHUD(hud, nHud, rPost).hud
    /\ nHud' = GetHUD(hud, nHud, rPost).nHud
    /\ rPost' = GetHUD(hud, nHud, rPost).rPost
    /\ hudReturned' = hudReturned \cup {hud'}
    /\ hudSurfaces' = Append(hudSurfaces,
                        [hud |-> hud', surface |-> <<"FPSSurface", nFps'>>,
                         position |-> <<"LEFT", "TOP">>])

\* A call of ShowFPS() by the caller.
ShowFPS ==
    /\ CanCall
    /\ ShowFPSBody
    /\ ops' = ops + 1
    /\ lastOp' = <<"ShowFPS", NULL>>
    /\ UNCHANGED <<pc, args, arg, engine, env, frame, viewport, renderer,
                   mouse, keyboard, joystick, scene, camera, frustum,
                   renderingview, lightrenderer, textureloader, stdlog,
                   frustums, cameras, shaderLoaders, built, plugins,
                   frameSize, vpVolume, sceneRoot, sceneChildren, tlLoaded,
                   errorLog, dotWritten, engInit, engDeinit, rInit, rPre,
                   rProc, keyListeners, run, lastCamArg>>

\* EnableDebugging() returning as soon as scene.dot cannot be opened.
EnableDebugging_ReturnOnError(good) ==
    /\ CanCall
    /\ frustums' = [frustums EXCEPT ![frustum[2]].visualize = TRUE]
    /\ sceneChildren' = [sceneChildren EXCEPT
                           ![scene] = Append(@, <<"FrustumNode", frustum[2]>>)]
    /\ IF good
       THEN dotWritten' = dotWritten + 1 /\ errorLog' = errorLog /\ ShowFPSBody
       ELSE /\ dotWritten' = dotWritten
            /\ errorLog' = Append(errorLog, "Can not open 'scene.dot' for output")
            /\ UNCHANGED <<nFps, tlQueue, engProc, hud, nHud, rPost,
                           hudReturned, hudSurfaces>>
    /\ ops' = ops + 1
    /\ lastOp' = <<"EnableDebugging", NULL>>
    /\ UNCHANGED <<pc, args, arg, engine, env, frame, viewport, renderer,
                   mouse, keyboard, joystick, scene, camera, frustum,
                   renderingview, lightrenderer, textureloader, stdlog,
                   cameras, shaderLoaders, built, plugins, frameSize,
                   vpVolume, sceneRoot, tlLoaded, engInit, engDeinit, rInit,
                   rPre, rProc, keyListeners, run, lastCamArg>>

\* EnableDebugging(): the member frustum is visualized and its node added
\* to the scene, scene.dot is written when it can be opened (good) and an
\* error is logged when it cannot, and ShowFPS() runs.
EnableDebugging(good) ==
    /\ CanCall
    /\ frustums' = [frustums EXCEPT ![frustum[2]].visualize = TRUE]
    /\ sceneChildren' = [sceneChildren EXCEPT
                           ![scene] = Append(@, <<"FrustumNode", frustum[2]>>)]
    /\ IF good
       THEN dotWritten' = dotWritten + 1 /\ errorLog' = errorLog
       ELSE dotWritten' = dotWritten
            /\ errorLog' = Append(errorLog, "Can not open 'scene.dot' for output")
    /\ ShowFPSBody
    /\ ops' = ops + 1
    /\ lastOp' = <<"EnableDebugging", NULL>>
    /\ UNCHANGED <<pc, args, arg, engine, env, frame, viewport, renderer,
                   mouse, keyboard, joystick, scene, camera, frustum,
                   renderingview, lightrenderer, textureloader, stdlog,
                   cameras, shaderLoaders, built, plugins, frameSize,
                   vpVolume, sceneRoot, tlLoaded, engInit, engDeinit, rInit,
                   rPre, rProc, keyListeners, run, lastCamArg>>

\* ------------------------------------------------------------- listeners

\* A quit handler that stops the engine on any key.
QuitHandler_AnyKey(sym, stop) == TRUE

\* QuitHandler::Handle(KeyboardEventArg): engine.Stop() on the escape key.
\* stop is the engine's stop request before, the result the request after.
QuitHandler_Handle(sym, stop) == IF sym = KEY_ESCAPE THEN TRUE ELSE stop

\* A trigger that scans the scene made by the constructor, whatever the
\* renderer's scene root is when it fires.
TextureLoadOnInit_Handle_CtorScene(root, q) ==
    IF root # NULL THEN TextureLoader_Load(q, <<"SceneNode", 1>>) ELSE q

\* TextureLoadOnInit::Handle(RenderingEventArg): the renderer's scene root,
\* when it has one, is scanned for textures.  q is the loader's queue.
TextureLoadOnInit_Handle(root, q) ==
    IF root # NULL THEN TextureLoader_Load(q, root) ELSE q

\* ------------------------------------------------------------- the engine's run

RECURSIVE Fire(_, _, _)
RECURSIVE Handle(_, _, _)

IsEnvironment(l) == l[1] \in {"SDLEnvironment", "UserEnvironment"}

IsRenderer(l) == l[1] \in {"Renderer", "UserRenderer"}

Logged(h, st) ==
    [st EXCEPT !.log = Append(@, [h |-> h, pending |-> st.queue,
                                  root |-> sceneRoot])]

\* A key event on the keyboard's channel.
KeyHandle(h, st) ==
    IF h[1] = "QuitHandler"
    THEN [st EXCEPT !.stop = QuitHandler_Handle(st.key, @)]
    ELSE st

\* A listener of the renderer's Initialize channel.
RendererInitHandle(h, st) ==
    IF h[1] = "TextureLoadOnInit"
    THEN [Logged(h, st) EXCEPT
            !.queue = TextureLoadOnInit_Handle(sceneRoot, @)]
    ELSE Logged(h, st)

\* A listener of the renderer's pre-process, process or post-process
\* channel; the texture loader drains its queue.
StageHandle(h, st) ==
    IF h[1] = "TextureLoader"
    THEN [Logged(h, st) EXCEPT !.loaded = @ \cup st.queue, !.queue = {}]
    ELSE Logged(h, st)

Delivered(phase, l, st) ==
    [Logged(l, st) EXCEPT !.deliv = Append(@, <<phase, l>>)]

\* A listener of the engine's Initialize channel: the renderer fires its
\* own Initialize channel.
InitializeHandle(l, st) ==
    IF IsRenderer(l)
    THEN Fire("RendererInitialize", rInit, Delivered("Initialize", l, st))
    ELSE Delivered("Initialize", l, st)

\* A listener of the engine's Process channel: the environment delivers the
\* key pressed, if any, to the keyboard's listeners; the renderer fires its
\* pre-process, process and post-process channels in turn.
ProcessHandle(l, st) ==
    IF IsEnvironment(l)
    THEN IF st.key = "none" THEN Delivered("Process", l, st)
         ELSE Fire("Key", keyListeners, Delivered("Process", l, st))
    ELSE IF IsRenderer(l)
    THEN Fire("Stage", rPost,
           Fire("Stage", rProc,
             Fire("Stage", rPre, Delivered("Process", l, st))))
    ELSE Delivered("Process", l, st)

\* A listener of the engine's Deinitialize channel.
DeinitializeHandle(l, st) == Delivered("Deinitialize", l, st)

\* IListener::Handle: what listener l does with an event of the given kind.
Handle(event, l, st) ==
    CASE event = "Initialize" -> InitializeHandle(l, st)
      [] event = "Process" -> ProcessHandle(l, st)
      [] event = "Deinitialize" -> DeinitializeHandle(l, st)
      [] event = "RendererInitialize" -> RendererInitHandle(l, st)
      [] event = "Stage" -> StageHandle(l, st)
      [] event = "Key" -> KeyHandle(l, st)

\* IEvent::Notify: every listener of the channel handles the event once, in
\* attachment order; st is the state the handlers act on.
Fire(event, ch, st) ==
    IF ch = <<>> THEN st
    ELSE Fire(event, Tail(ch), Handle(event, Head(ch), st))

Before(key) ==
    [stop |-> stopRequested, queue |-> tlQueue, loaded |-> tlLoaded,
     log |-> <<>>, deliv |-> deliveries, key |-> key]

\* Engine::Start, first part: the Initialize channel fires once.
FireInitialize ==
    /\ pc = "ready"
    /\ engState = "Created"
    /\ LET st == Fire("Initialize", engInit, Before("none"))
       IN /\ tlQueue' = st.queue
          /\ tlLoaded' = st.loaded
          /\ initLog' = st.log
          /\ deliveries' = st.deliv
          /\ stopRequested' = st.stop
    /\ engState' = "Running"
    /\ phaseLog' = Append(phaseLog, <<"Initialize", "none">>)
    /\ UNCHANGED <<pc, args, arg, ops, members, allocated, channels,
                   frameSize, vpVolume, sceneRoot, sceneChildren,
                   hudSurfaces, errorLog, dotWritten, frames, frameLog, seen>>

\* Engine::Start, the loop: while no stop is requested the Process channel
\* fires; key is the key pressed during the firing.
FireProcess(key) ==
    /\ pc = "ready"
    /\ engState = "Running"
    /\ ~stopRequested
    /\ frames < MaxFrames
    /\ LET st == Fire("Process", engProc, Before(key))
       IN /\ tlQueue' = st.queue
          /\ tlLoaded' = st.loaded
          /\ frameLog' = st.log
          /\ deliveries' = st.deliv
          /\ stopRequested' = st.stop
    /\ frames' = frames + 1
    /\ phaseLog' = Append(phaseLog, <<"Process", key>>)
    /\ UNCHANGED <<pc, args, arg, ops, members, allocated, channels,
                   frameSize, vpVolume, sceneRoot, sceneChildren,
                   hudSurfaces, errorLog, dotWritten, engState, initLog, seen>>

\* Engine::Start, last part: once a stop is requested the Deinitialize
\* channel fires and the engine has stopped.
FireDeinitialize ==
    /\ pc = "ready"
    /\ engState = "Running"
    /\ stopRequested
    /\ LET st == Fire("Deinitialize", engDeinit, Before("none"))
       IN deliveries' = st.deliv
    /\ engState' = "Stopped"
    /\ phaseLog' = Append(phaseLog, <<"Deinitialize", "none">>)
    /\ UNCHANGED <<pc, args, arg, ops, members, allocated, channels, collab,
                   stopRequested, frames, initLog, frameLog, seen>>

\* GetRenderer().SetSceneRoot(r) by the caller: the renderer's scene root
\* is replaced, or cleared, without SimpleSetup taking part.
RendererSetSceneRoot(r) ==
    /\ CanCall
    /\ sceneRoot' = r
    /\ ops' = ops + 1
    /\ lastOp' = <<"RendererSetSceneRoot", r>>
    /\ UNCHANGED <<pc, args, arg, members, allocated, channels, frameSize,
                   vpVolume, sceneChildren, tlQueue, tlLoaded, hudSurfaces,
                   errorLog, dotWritten, run, lastCamArg, hudReturned>>

Next ==
    \/ FireInitialize
    \/ \E key \in Keys : FireProcess(key)
    \/ FireDeinitialize
    \/ \E s \in UserScenes : SetScene(s)
    \/ \E c \in UserCameras : SetCamera_assign(c)
    \/ SetCamera_delete
    \/ SetCamera_new
    \/ SetCamera_install
    \/ \E v \in UserVolumes : SetCameraVolume_new(v)
    \/ SetCameraVolume_install
    \/ CallGetHUD
    \/ ShowFPS
    \/ \E good \in BOOLEAN : EnableDebugging(good)
    \/ CtorEngine
    \/ CtorViewport
    \/ CtorScene
    \/ CtorRender
    \/ CtorKeys

Spec == Init /\ [][Next]_vars

\* The constructor under every choice of arguments, and the engine's run.
NextInject ==
    \/ CtorEngine
    \/ CtorViewport
    \/ CtorScene
    \/ CtorRender
    \/ CtorKeys
    \/ FireInitialize
    \/ \E key \in Keys : FireProcess(key)
    \/ FireDeinitialize

SpecInject == InitInject /\ [][NextInject]_vars

\* The scene root set through SetScene or directly on the renderer, and the
\* engine's run.
NextTrigger ==
    \/ CtorEngine
    \/ CtorViewport
    \/ CtorScene
    \/ CtorRender
    \/ CtorKeys
    \/ \E s \in UserScenes : SetScene(s)
    \/ \E r \in UserScenes \cup {NULL} : RendererSetSceneRoot(r)
    \/ ShowFPS
    \/ FireInitialize
    \/ \E key \in Keys : FireProcess(key)
    \/ FireDeinitialize

SpecTrigger == Init /\ [][NextTrigger]_vars

\* The constructor has returned.
Constructed ==
    pc \notin {"ctor_engine", "ctor_viewport", "ctor_scene", "ctor_render",
               "ctor_keys"}

\* ------------------------------------------------------------- properties

\* The positions of listener h in a log of handlers.
PositionsIn(log, h) == {i \in 1..Len(log) : log[i].h = h}

\* The number of entries of sequence s whose first component is kind.
Count(s, kind) == Cardinality({i \in 1..Len(s) : s[i][1] = kind})

IsHUD(l) == l[1] = "HUD"

\* C1: once the constructor has returned, and whatever operations have been
\* called since, the first listener of the renderer's pre-process channel is
\* the light renderer and the second is the texture loader.
C1_PreProcessOrder ==
    Constructed =>
        /\ Len(rPre) >= 2
        /\ rPre[1] = lightrenderer /\ rPre[1][1] = "LightRenderer"
        /\ rPre[2] = textureloader /\ rPre[2][1] = "TextureLoader"

\* C1 witness: two operations that attach listeners have returned, and the
\* pre-process channel still starts with the two stages.
C1_Witness ==
    /\ pc = "ready" /\ ops = 2
    /\ hud # NULL /\ Len(shaderLoaders) = 1
    /\ rPre[1] = lightrenderer /\ rPre[2] = textureloader

\* The handlers of one Process firing ran in stage order: the light
\* renderer, then the texture loader, then the rendering view, which found
\* no texture pending, then the HUD h if there was one.
StageOrder(log, h) ==
    /\ \E i, j, k \in 1..Len(log) :
          /\ i < j /\ j < k
          /\ PositionsIn(log, lightrenderer) = {i}
          /\ PositionsIn(log, textureloader) = {j}
          /\ PositionsIn(log, renderingview) = {k}
          /\ log[k].pending = {}
          /\ \A m \in 1..Len(log) : IsHUD(log[m].h) => m > k
    /\ h # NULL => PositionsIn(log, h) # {}

\* C2: every Process firing of the engine runs the light renderer, the
\* texture loader, the rendering view and then the HUD (when there is one)
\* in that order, and the rendering view finds every texture that was
\* queued before the firing already drained.
C2_ProcessStageOrder ==
    [][frames' = frames + 1 => StageOrder(frameLog', hud)]_vars

\* C2 witness: a second Process firing in which the texture loader found
\* a surface queued since the first and the HUD came after the rendering
\* view.
C2_Witness ==
    /\ frames = 2
    /\ \E j \in 1..Len(frameLog) :
          /\ frameLog[j].h = textureloader
          /\ frameLog[j].pending # {}
    /\ PositionsIn(frameLog, hud) # {}
    /\ tlQueue = {}

\* C3: all calls of GetHUD, the caller's and those of ShowFPS and
\* EnableDebugging, return one and the same HUD, which is attached to the
\* renderer's post-process channel once; before the first call no HUD is
\* attached.
C3_OneHUD ==
    /\ Cardinality(hudReturned) <= 1
    /\ hudReturned = {} => Count(rPost, "HUD") = 0
    /\ hudReturned # {} =>
          /\ hudReturned = {hud}
          /\ Count(rPost, "HUD") = 1
          /\ \E i \in 1..Len(rPost) : rPost[i] = hud

\* C3 witness: ShowFPS asked for the HUD and then the caller did.
C3_Witness ==
    /\ lastOp[1] = "GetHUD" /\ ops = 2 /\ nFps = 1
    /\ hudReturned = {hud} /\ hud # NULL

\* C4: once a SetCamera call of either kind has returned, and no other is
\* in progress, the viewport's viewing volume is a live object that wraps
\* the argument of the most recent such call.
C4_VolumeFromLastCamera ==
    (pc = "ready" /\ lastCamArg # NULL) =>
        /\ vpVolume # NULL
        /\ IsLive(vpVolume)
        /\ Wrapped(vpVolume) = lastCamArg

\* C4 witness: SetCamera(Camera&) and then SetCamera(IViewingVolume&) have
\* returned.
C4_Witness ==
    /\ pc = "ready" /\ Len(frustums) = 2 /\ Len(cameras) = 2
    /\ lastOp[1] = "SetCameraVolume"
    /\ Wrapped(vpVolume) = lastCamArg

OneLiveVolume ==
    /\ vpVolume # NULL
    /\ IsLive(vpVolume)
    /\ vpVolume[1] = "Frustum" => CameraOf(vpVolume) = camera

\* C6 as stated: from the end of the constructor's viewport setup on, at
\* every statement of both SetCamera operations, the viewport has one live
\* viewing volume that is no frustum of a camera other than the current one.
C6_AtEveryStep ==
    pc \notin {"ctor_engine", "ctor_viewport"} => OneLiveVolume

\* C6 amended: from the end of the constructor's viewport setup on, whenever
\* no SetCamera call is in progress, the viewport has one live viewing
\* volume that is no frustum of a camera other than the current one.
C6_BetweenCalls ==
    pc \in {"ctor_scene", "ctor_render", "ctor_keys", "ready"} => OneLiveVolume

\* C6 witness: the second of two SetCamera(Camera&) calls has returned, the
\* frustums of the constructor and of the first call are deleted and the
\* viewport has the third.
C6_Witness ==
    /\ pc = "ready" /\ lastOp[1] = "SetCamera"
    /\ Len(frustums) = 3 /\ ~frustums[1].live /\ ~frustums[2].live
    /\ vpVolume = frustum /\ frustum = <<"Frustum", 3>>

\* C7: after SetScene(S) has returned the renderer's scene root is S and
\* every texture of S is pending in the texture loader or loaded by it.
C7_SceneRootAndTextures ==
    lastOp[1] = "SetScene" =>
        /\ sceneRoot = lastOp[2]
        /\ SceneTextures(lastOp[2]) \subseteq (tlQueue \cup tlLoaded)

\* C7 witness: SetScene has returned for a second, different scene whose
\* textures are pending.
C7_Witness ==
    /\ lastOp[1] = "SetScene"
    /\ Len(shaderLoaders) = 2 /\ shaderLoaders[1] # shaderLoaders[2]
    /\ sceneRoot = shaderLoaders[2]
    /\ SceneTextures(sceneRoot) # {}
    /\ SceneTextures(sceneRoot) \subseteq tlQueue

\* The phases that reached listener l, in order.
PhasesOf(l) == SelectSeq(deliveries, LAMBDA d : d[2] = l)

NoEscape == \A i \in 1..Len(phaseLog) : phaseLog[i][2] # KEY_ESCAPE

\* C8: a Process firing in which the escape key is delivered is the last
\* one, and only Deinitialize follows it; the environment and the renderer
\* have handled every Process firing, that one included, as has every
\* listener attached to the Process channel when it fired; without an
\* escape key the engine is not stopped.
C8_QuitOnEscape ==
    /\ [](/\ \A i \in 1..Len(phaseLog) :
               phaseLog[i] = <<"Process", KEY_ESCAPE>> =>
                   /\ stopRequested
                   /\ i < Len(phaseLog) => phaseLog[i + 1][1] = "Deinitialize"
          /\ Constructed =>
               \A l \in {env, renderer} :
                   Count(PhasesOf(l), "Process") = frames
          /\ NoEscape => ~stopRequested /\ engState # "Stopped")
    /\ [][frames' = frames + 1 =>
            \A i \in 1..Len(engProc) : PositionsIn(frameLog', engProc[i]) # {}]_vars

\* C8 witness: a key other than escape in the first Process firing, escape
\* in the second, with a frame-rate surface attached after the renderer,
\* and the engine stopped by Deinitialize.
C8_Witness ==
    /\ engState = "Stopped"
    /\ phaseLog = << <<"Initialize", "none">>, <<"Process", "KEY_a">>,
                     <<"Process", KEY_ESCAPE>>, <<"Deinitialize", "none">> >>
    /\ nFps = 1
    /\ PositionsIn(frameLog, renderer) # {}
    /\ PositionsIn(frameLog, <<"FPSSurface", 1>>) # {}

\* C9: the environment and the renderer each receive Initialize first and
\* only once, Process only after it, and Deinitialize once, as the last
\* phase, after which the engine has stopped.
C9_Lifecycle ==
    Constructed =>
        \A l \in {env, renderer} :
            /\ \A i \in 1..Len(PhasesOf(l)) :
                  /\ PhasesOf(l)[i][1] = "Initialize" <=> i = 1
                  /\ PhasesOf(l)[i][1] = "Deinitialize" => i = Len(PhasesOf(l))
            /\ engState # "Created" => Len(PhasesOf(l)) >= 1
            /\ engState = "Stopped" <=>
                  /\ Len(PhasesOf(l)) >= 1
                  /\ PhasesOf(l)[Len(PhasesOf(l))][1] = "Deinitialize"

\* C9 witness: a run of Initialize, two Process firings and Deinitialize.
C9_Witness ==
    /\ engState = "Stopped" /\ frames = 2
    /\ PhasesOf(renderer) =
          << <<"Initialize", renderer>>, <<"Process", renderer>>,
             <<"Process", renderer>>, <<"Deinitialize", renderer>> >>

\* An argument is honoured: when given, the member is the object given and
\* no default is constructed; when not given, the default is constructed.
Honoured(given, member, default) ==
    /\ given # NULL => member = given /\ default \notin built
    /\ given = NULL => member = <<default, 1>> /\ default \in built

\* C10: the environment, the rendering view, the engine and the renderer
\* given to the constructor are the ones wired and exposed, and a default
\* is constructed only for those not given.
C10_Injection ==
    Constructed =>
        /\ Honoured(args.env, env, "SDLEnvironment")
        /\ Honoured(args.rv, renderingview, "RenderingView")
        /\ Honoured(args.eng, engine, "Engine")
        /\ Honoured(args.rend, renderer, "Renderer")

\* The same for the arguments the constructor's definition takes.
InjectionOfDefinedArgs ==
    Constructed =>
        /\ Honoured(args.env, env, "SDLEnvironment")
        /\ Honoured(args.rv, renderingview, "RenderingView")
        /\ Honoured(args.eng, engine, "Engine")
        /\ Honoured(args.vp, viewport, "Viewport")

\* The texture-load trigger's entry in the log of the Initialize firing.
TriggerAt(log) == CHOOSE i \in 1..Len(log) : log[i].h[1] = "TextureLoadOnInit"

\* The texture loader's queue when the handler after entry i of the log ran,
\* or at the end of the firing (queue q) when entry i is the last.
QueueAfter(log, i, q) == IF i < Len(log) THEN log[i + 1].pending ELSE q

\* C11: one texture-load trigger is attached to the renderer's Initialize
\* channel and no operation attaches another; when Initialize fires it runs
\* once, queues nothing if the renderer's scene root is NULL and otherwise
\* queues the textures of the scene root of that moment; after that the
\* Initialize firing is never repeated.
C11_TriggerOnce ==
    /\ [](Constructed => rInit = << <<"TextureLoadOnInit", 1>> >>)
    /\ [][(engState = "Created" /\ engState' = "Running") =>
            /\ Cardinality(PositionsIn(initLog', <<"TextureLoadOnInit", 1>>)) = 1
            /\ LET i == TriggerAt(initLog')
               IN QueueAfter(initLog', i, tlQueue') =
                     IF sceneRoot = NULL THEN initLog'[i].pending
                     ELSE initLog'[i].pending \cup SceneTextures(sceneRoot)]_vars
    /\ [][engState # "Created" => initLog' = initLog /\ engState' # "Created"]_vars

\* C11 witness: Initialize has fired with the renderer's scene root NULL and
\* the trigger queued nothing.
C11_WitnessNull ==
    /\ engState = "Running"
    /\ \E i \in 1..Len(initLog) :
          /\ initLog[i].h = <<"TextureLoadOnInit", 1>>
          /\ initLog[i].root = NULL
          /\ QueueAfter(initLog, i, {}) = initLog[i].pending

\* The step is a call of EnableDebugging().
EnableDebuggingStep == lastOp'[1] = "EnableDebugging" /\ ops' = ops + 1

\* What EnableDebugging() does whether or not scene.dot can be opened: the
\* member frustum is visualized, its node is the new last child of the
\* scene, and one more FPS surface is queued, attached and put on the HUD.
DebuggingEffects ==
    /\ frustums'[frustum[2]].visualize
    /\ sceneChildren' = [sceneChildren EXCEPT
                           ![scene] = Append(@, <<"FrustumNode", frustum[2]>>)]
    /\ nFps' = nFps + 1
    /\ tlQueue' = tlQueue \cup {<<"FPSSurface", nFps'>>}
    /\ engProc' = Append(engProc, <<"FPSSurface", nFps'>>)
    /\ hud' # NULL
    /\ hudSurfaces' = Append(hudSurfaces,
                        [hud |-> hud', surface |-> <<"FPSSurface", nFps'>>,
                         position |-> <<"LEFT", "TOP">>])

\* C12: a call of EnableDebugging() either writes scene.dot and logs no
\* error, or logs one error and writes nothing; in both cases, and so when
\* the file cannot be opened, the frustum's node is added to the scene and
\* the FPS overlay is enabled in the same way.
C12_ExportFailure ==
    [][EnableDebuggingStep =>
         /\ DebuggingEffects
         /\ \/ errorLog' = errorLog /\ dotWritten' = dotWritten + 1
            \/ /\ errorLog' = Append(errorLog,
                                "Can not open 'scene.dot' for output")
               /\ dotWritten' = dotWritten]_vars

C12_Witness ==
    /\ lastOp[1] = "EnableDebugging"
    /\ Len(errorLog) = 1
    /\ dotWritten = 0
    /\ nFps = 1
    /\ hud # NULL
    /\ \E i \in 1..Len(sceneChildren[scene]) :
          sceneChildren[scene][i] = <<"FrustumNode", frustum[2]>>

\* C13: once the constructor has returned with no argument given, and until
\* an operation is called, the environment is the one it made, 800 by 600,
\* the camera is a camera it made, the viewport's volume is the member
\* frustum, live and around that camera, and the scene is a node whose one
\* child is a directional light and which is the renderer's scene root.
C13_Defaults ==
    (Constructed /\ args = NoArgs /\ ops = 0 /\ pc = "ready") =>
        /\ env = <<"SDLEnvironment", 1>>
        /\ "SDLEnvironment" \in built
        /\ frameSize = <<DefaultWidth, DefaultHeight>>
        /\ camera # NULL
        /\ camera[1] = "Camera"
        /\ vpVolume = frustum
        /\ vpVolume[1] = "Frustum"
        /\ IsLive(vpVolume)
        /\ CameraOf(vpVolume) = camera
        /\ scene # NULL
        /\ sceneChildren[scene] = << <<"DirectionalLightNode", 1>> >>
        /\ sceneRoot = scene

C13_Witness ==
    /\ Constructed
    /\ args = NoArgs
    /\ engState = "Running"
    /\ frameSize = <<800, 600>>
    /\ Len(sceneChildren[scene]) = 1

\* The shader loaders the engine's Initialize firing has invoked.
InvokedLoaders == {i \in 1..Len(initLog) : initLog[i].h[1] = "ShaderLoader"}

\* C14: there is one shader loader on the engine's Initialize channel for
\* each call of SetScene, each for the scene of its call; a loader that is
\* invoked is the loader of the scene current at that moment, not of a
\* scene replaced since; and once the engine has stopped, so that nothing
\* is invoked any more, the loader of the scene set last has been invoked.
C14_LoaderOfCurrentSceneRuns ==
    pc = "ready" =>
        /\ Count(engInit, "ShaderLoader") = Len(shaderLoaders)
        /\ \A k \in 1..Len(shaderLoaders) :
              Cardinality(PositionsIn([i \in 1..Len(engInit) |-> [h |-> engInit[i]]],
                                      <<"ShaderLoader", k>>)) = 1
        /\ \A i \in InvokedLoaders :
              shaderLoaders[initLog[i].h[2]] = initLog[i].root
        /\ (engState = "Stopped" /\ Len(shaderLoaders) > 0) =>
              \E i \in InvokedLoaders : initLog[i].h[2] = Len(shaderLoaders)

\* The frustum whose node is the last child of the current scene.
VisualizedFrustum ==
    <<"Frustum", sceneChildren[scene][Len(sceneChildren[scene])][2]>>

\* C15: when EnableDebugging() has just returned, the frustum whose node it
\* added to the scene is the viewing volume of the viewport and is a frustum
\* around the current camera.
C15_ActiveFrustumVisualized ==
    (pc = "ready" /\ lastOp[1] = "EnableDebugging") =>
        /\ sceneChildren[scene][Len(sceneChildren[scene])][1] = "FrustumNode"
        /\ frustums[VisualizedFrustum[2]].visualize
        /\ vpVolume = VisualizedFrustum
        /\ CameraOf(VisualizedFrustum) = camera

\* The positions of listener l on a channel.
Places(ch, l) == {i \in 1..Len(ch) : ch[i] = l}

\* The step is a call of ShowFPS(), directly or from EnableDebugging().
ShowFPSStep ==
    lastOp'[1] \in {"ShowFPS", "EnableDebugging"} /\ ops' = ops + 1

\* C16: each call of ShowFPS() or EnableDebugging() adds one FPS surface to
\* the engine's Process channel and to the texture loader's queue, and no
\* other step adds or removes one; each surface is on the channel once,
\* after the renderer, and on the one HUD once; and a Process firing
\* delivers to each surface once, after the renderer and all its stages.
C16_OneSurfacePerCall ==
    /\ [](Constructed =>
            /\ Count(engProc, "FPSSurface") = nFps
            /\ Len(hudSurfaces) = nFps
            /\ nHud <= 1
            /\ \A k \in 1..nFps :
                  /\ Cardinality(Places(engProc, <<"FPSSurface", k>>)) = 1
                  /\ \A i \in Places(engProc, <<"FPSSurface", k>>) :
                        \A j \in Places(engProc, renderer) : j < i
                  /\ hudSurfaces[k] = [hud |-> hud,
                                       surface |-> <<"FPSSurface", k>>,
                                       position |-> <<"LEFT", "TOP">>]
                  /\ <<"FPSSurface", k>> \in tlQueue \cup tlLoaded)
    /\ [][Constructed =>
            IF ShowFPSStep
            THEN /\ nFps' = nFps + 1
                 /\ engProc' = Append(engProc, <<"FPSSurface", nFps'>>)
                 /\ <<"FPSSurface", nFps'>> \notin tlQueue \cup tlLoaded
                 /\ tlQueue' = tlQueue \cup {<<"FPSSurface", nFps'>>}
            ELSE nFps' = nFps /\ engProc' = engProc]_vars
    /\ [][frames' = frames + 1 =>
            \A k \in 1..nFps :
               /\ Cardinality(PositionsIn(frameLog', <<"FPSSurface", k>>)) = 1
               /\ \A i \in PositionsIn(frameLog', <<"FPSSurface", k>>) :
                     \A j \in 1..Len(frameLog') :
                        frameLog'[j].h[1] # "FPSSurface" => j < i]_vars

C16_Witness ==
    /\ nFps = 2
    /\ frames = 2
    /\ Count(engProc, "FPSSurface") = 2
    /\ \A k \in 1..2 : PositionsIn(frameLog, <<"FPSSurface", k>>) # {}

\* The environment is first and the renderer second on channel ch, as far
\* as the channel goes.
EnvThenRenderer(ch) ==
    /\ Len(ch) >= 1 => ch[1] = env
    /\ Len(ch) >= 2 => ch[2] = renderer
    /\ Constructed => Len(ch) >= 2 /\ env # renderer

\* C17: on the engine's Initialize, Process and Deinitialize channels the
\* environment is the first listener and the renderer the second, at every
\* moment, and each delivery of a phase to the renderer comes directly after
\* the delivery of the same phase to the environment.
C17_EnvBeforeRenderer ==
    /\ EnvThenRenderer(engInit)
    /\ EnvThenRenderer(engProc)
    /\ EnvThenRenderer(engDeinit)
    /\ \A i \in 1..Len(deliveries) :
          deliveries[i][2] = renderer =>
             /\ i > 1
             /\ deliveries[i - 1] = <<deliveries[i][1], env>>

C17_Witness ==
    /\ engState = "Stopped"
    /\ \E i \in 2..Len(deliveries) :
          /\ deliveries[i] = <<"Deinitialize", renderer>>
          /\ deliveries[i - 1] = <<"Deinitialize", env>>
    /\ Len(engInit) > 2
    /\ Len(engProc) > 2

\* The step is a call of SetScene.
SetSceneStep == lastOp'[1] = "SetScene" /\ ops' = ops + 1

\* C18: once the constructor has returned the scene member is not NULL and
\* is the renderer's scene root, whatever operations have been called; and
\* no step other than a call of SetScene, so none of SetCamera, GetHUD,
\* ShowFPS and EnableDebugging, changes either of the two.
C18_SceneIsRendererRoot ==
    /\ [](Constructed => scene # NULL /\ sceneRoot = scene)
    /\ [][(Constructed /\ ~SetSceneStep) =>
             scene' = scene /\ sceneRoot' = sceneRoot]_vars

C18_Witness ==
    /\ pc = "ready"
    /\ ops = 2
    /\ lastOp[1] \in {"SetCamera", "SetCameraVolume", "GetHUD", "ShowFPS",
                      "EnableDebugging"}
    /\ scene \in UserScenes
    /\ sceneRoot = scene

\* The frustums whose visualization node is a child of the current scene.
FrustumsInScene ==
    {sceneChildren[scene][i][2] :
        i \in {j \in 1..Len(sceneChildren[scene]) :
                  sceneChildren[scene][j][1] = "FrustumNode"}}

\* C19: between calls, every frustum whose visualization node is a child of
\* the current scene has not been deleted.
C19_NodesOfLiveFrustums ==
    pc = "ready" => \A f \in FrustumsInScene : frustums[f].live

====
